---- MODULE Spec2Model ----
(***************************************************************************)
(* The GDB/MI output parser of gdbmi.py: MIParser, a recursive-descent     *)
(* parser with one token of lookahead over the token list produced by      *)
(* mi_scanner.  The Python call stack is the variable stack; every method  *)
(* of MIParser that calls another rule is one action, stepping from one    *)
(* call to the next.  parse(text, pedantic) is applied to the same token   *)
(* list twice: first with pedantic = FALSE, then with pedantic = TRUE.     *)
(***************************************************************************)
EXTENDS Integers, Sequences, FiniteSets, TLC

VARIABLES
    input,      \* the lines the text is made of, and whether a prompt line ends it
    tokens,     \* mi_scanner.scan(text)[0]
    pedantic,   \* self.pedantic of the running (or last) call
    token,      \* self._token, the lookahead
    pos,        \* self._tokens: how many tokens the iterator has yielded
    stack,      \* the Python call stack of the running call, innermost frame last
    retval,     \* the value the last returning method returned
    out         \* out[p]: what parse(text, pedantic = p) did

vars == <<input, tokens, pedantic, token, pos, stack, retval, out>>

\* The longest text, in lines before the optional final prompt line.
MaxLines == 3

\* The same for the specification the liveness property is checked under.
MaxLiveLines == 2

----------------------------------------------------------------------------
\* Python values

PyNone == [t |-> "None"]
PyFalse == [t |-> "False"]
PyInt(n) == [t |-> "int", v |-> n]
PyStr(s) == [t |-> "str", v |-> s]
PyList(s) == [t |-> "list", v |-> s]
PyTuple(s) == [t |-> "tuple", v |-> s]
PyDict(k, v) == [t |-> "dict", k |-> k, v |-> v]

----------------------------------------------------------------------------
\* The tokens of mi_scanner: (kind, value) pairs

Tok(kind, value) == [kind |-> kind, value |-> value]
TOKEN(n) == Tok("TOKEN", PyInt(n))
NL == Tok("NL", PyStr("\n"))
PROMPT == Tok("PROMPT", PyStr("(gdb)"))
STRING_(s) == Tok("STRING", PyStr(s))
LBRACKET == Tok("LBRACKET", PyStr("["))
RBRACKET == Tok("RBRACKET", PyStr("]"))
LBRACE == Tok("LBRACE", PyStr("{"))
RBRACE == Tok("RBRACE", PyStr("}"))
COMMA == Tok("COMMA", PyStr(","))
CARET == Tok("CARET", PyStr("^"))
ASTERISK == Tok("ASTERISK", PyStr("*"))
PLUS == Tok("PLUS", PyStr("+"))
EQUALS == Tok("EQUALS", PyStr("="))
TILDE == Tok("TILDE", PyStr("~"))
AT == Tok("AT", PyStr("@"))
AMPERSAND == Tok("AMPERSAND", PyStr("&"))
CSTRING(s) == Tok("CSTRING", PyStr(s))

\* next(self._tokens, (None, None)) on an exhausted iterator
NoneTok == Tok("None", PyNone)

----------------------------------------------------------------------------
\* The texts parse is applied to: up to MaxLines lines of Line, then
\* possibly the prompt line.

Line == [
    r   |-> <<CARET, STRING_("done"), NL>>,
    r1  |-> <<TOKEN(1), CARET, STRING_("done"), NL>>,
    rb  |-> <<CARET, STRING_("done"), COMMA, STRING_("bkpt"), EQUALS, LBRACE,
              STRING_("number"), EQUALS, CSTRING("1"), RBRACE, NL>>,
    a   |-> <<ASTERISK, STRING_("stopped"), NL>>,
    a2  |-> <<TOKEN(2), ASTERISK, STRING_("stopped"), NL>>,
    n   |-> <<EQUALS, STRING_("x"), COMMA, STRING_("a"), EQUALS, LBRACE,
              STRING_("b"), EQUALS, CSTRING("1"), COMMA,
              STRING_("b"), EQUALS, CSTRING("2"), RBRACE, COMMA,
              STRING_("c"), EQUALS, LBRACKET, RBRACKET, NL>>,
    p   |-> <<PLUS, STRING_("s"), COMMA, STRING_("l"), EQUALS, LBRACKET,
              CSTRING("x"), COMMA, LBRACE, RBRACE, RBRACKET, COMMA,
              STRING_("m"), EQUALS, LBRACKET, STRING_("k"), EQUALS, CSTRING("v"),
              COMMA, STRING_("k"), EQUALS, CSTRING("w"), RBRACKET, NL>>,
    c   |-> <<TILDE, CSTRING("Hello\n"), NL>>,
    cn  |-> <<TILDE, CSTRING("a")>>,
    t   |-> <<AT, CSTRING("b")>>,
    l   |-> <<AMPERSAND, CSTRING("c"), NL>>,
    g   |-> <<PROMPT, NL>>,
    gp  |-> <<PROMPT>>,
    nl  |-> <<NL>>,
    bv  |-> <<ASTERISK, STRING_("e"), COMMA, STRING_("v"), EQUALS, RBRACKET, NL>>
]

LineNames == DOMAIN Line

SeqsUpTo(S, k) == UNION {[1..i -> S] : i \in 0..k}

RECURSIVE Flatten(_)
Flatten(ls) ==
    IF ls = <<>> THEN <<>> ELSE Line[Head(ls)] \o Flatten(Tail(ls))

Scan(in) == Flatten(in.lines) \o (IF in.prompt THEN <<PROMPT, NL>> ELSE <<>>)

----------------------------------------------------------------------------
\* Lookahead and consumption.  A rule's straight-line code threads the
\* record s = (lookahead, iterator position, token returned by the last
\* _accept/_expect, exception raised so far) through its calls; once an
\* exception is raised the remaining calls of the rule do nothing.  In the
\* actions, \E s1 \in {e} names the value of e.

Here == [token |-> token, pos |-> pos, got |-> PyNone, err |-> PyNone]

Msg(fmt, args) == [fmt |-> fmt, args |-> args]

error(what) == [t |-> "SyntaxError", what |-> what]

\* _advance with an iterator that starts over instead of giving the sentinel
_advance_rewind(s) ==
    IF s.pos < Len(tokens)
    THEN [s EXCEPT !.got = s.token, !.token = tokens[s.pos + 1], !.pos = s.pos + 1]
    ELSE [s EXCEPT !.got = s.token, !.token = tokens[1], !.pos = 1]

_advance(s) ==
    IF s.pos < Len(tokens)
    THEN [s EXCEPT !.got = s.token, !.token = tokens[s.pos + 1], !.pos = s.pos + 1]
    ELSE [s EXCEPT !.got = s.token, !.token = NoneTok]

_lookahead(s) == s.token

_check(s, expected) == _lookahead(s).kind = expected

_accept(s, expected) ==
    IF s.err # PyNone THEN s
    ELSE IF _check(s, expected) THEN _advance(s)
    ELSE [s EXCEPT !.got = PyFalse]

_expect(s, expected) ==
    LET a == _accept(s, expected) IN
    IF s.err # PyNone THEN s
    ELSE IF a.got = PyFalse
         THEN [s EXCEPT !.err = error(Msg("expected %s, got %s",
                                          <<expected, s.token.kind>>))]
         ELSE a

_token_maybe(s) ==
    LET a == _accept(s, "TOKEN") IN
    IF s.err # PyNone THEN s
    ELSE IF a.got # PyFalse THEN [a EXCEPT !.got = a.got.value]
    ELSE [a EXCEPT !.got = PyNone]

_string(s) ==
    LET a == _expect(s, "STRING") IN
    IF a.err # PyNone THEN a ELSE [a EXCEPT !.got = a.got.value]

_cstring(s) ==
    LET a == _expect(s, "CSTRING") IN
    IF a.err # PyNone THEN a ELSE [a EXCEPT !.got = a.got.value]

----------------------------------------------------------------------------
\* The call stack

Frame(fn, pc) ==
    [fn |-> fn, pc |-> pc, arg |-> "", acc |-> <<>>, v1 |-> PyNone, v2 |-> PyNone]

Top == stack[Len(stack)]

Running(fn, pc) == stack # <<>> /\ Top.fn = fn /\ Top.pc = pc

\* an exception leaves every frame and reaches the caller of parse
Raise(s, exc) ==
    \E e \in {<<s, exc>>} :
        /\ token' = e[1].token
        /\ pos' = e[1].pos
        /\ stack' = <<>>
        /\ out' = [out EXCEPT ![pedantic] = [t |-> "raised", exc |-> e[2]]]
        /\ UNCHANGED <<input, tokens, pedantic, retval>>

\* the running method calls callee and will go on at frame cont
Call(s, cont, callee) ==
    \E e \in {s} :
        IF e.err # PyNone THEN Raise(e, e.err)
        ELSE /\ token' = e.token
             /\ pos' = e.pos
             /\ stack' = Append([stack EXCEPT ![Len(stack)] = cont], callee)
             /\ UNCHANGED <<input, tokens, pedantic, retval, out>>

\* the running method goes on in its own frame
Goto(s, cont) ==
    \E e \in {s} :
        IF e.err # PyNone THEN Raise(e, e.err)
        ELSE /\ token' = e.token
             /\ pos' = e.pos
             /\ stack' = [stack EXCEPT ![Len(stack)] = cont]
             /\ UNCHANGED <<input, tokens, pedantic, retval, out>>

\* the running method returns value
Return(s, value) ==
    \E e \in {s} :
        IF e.err # PyNone THEN Raise(e, e.err)
        ELSE /\ token' = e.token
             /\ pos' = e.pos
             /\ stack' = SubSeq(stack, 1, Len(stack) - 1)
             /\ retval' = value
             /\ UNCHANGED <<input, tokens, pedantic, out>>

----------------------------------------------------------------------------
Pending == [t |-> "pending"]

\* no text has been handed to parse yet
NoText == [lines |-> <<>>, prompt |-> FALSE, read |-> FALSE]

Init ==
    /\ input = NoText
    /\ tokens = <<>>
    /\ pedantic = FALSE
    /\ token = NoneTok
    /\ pos = 0
    /\ stack = <<>>
    /\ retval = PyNone
    /\ out = [p \in BOOLEAN |-> Pending]

\* parse(text, pedantic) and MIParser.parse: the lenient call first, the
\* pedantic call once the lenient one is over
\* tokens, remainder = mi_scanner.scan(text), for a text of at most k lines
scan(k) ==
    /\ ~input.read
    /\ \E ls \in SeqsUpTo(LineNames, k), pr \in BOOLEAN :
          /\ input' = [lines |-> ls, prompt |-> pr, read |-> TRUE]
          /\ tokens' = Scan(input')
    /\ UNCHANGED <<pedantic, token, pos, stack, retval, out>>

parse ==
    \/ /\ stack = <<>>
       /\ input.read
       /\ \E p \in BOOLEAN :
            /\ out[p] = Pending
            /\ p => out[FALSE] # Pending
            /\ pedantic' = p
            /\ IF tokens = <<>>
               THEN /\ out' = [out EXCEPT ![p] =
                                 [t |-> "raised", exc |-> [t |-> "StopIteration"]]]
                    /\ stack' = <<>>
                    /\ UNCHANGED <<token, pos>>
               ELSE /\ token' = tokens[1]
                    /\ pos' = 1
                    /\ stack' = <<Frame("parse", "ret"), Frame("_output", "loop1")>>
                    /\ out' = out
       /\ UNCHANGED <<input, tokens, retval>>
    \/ /\ Running("parse", "ret")
       /\ stack' = <<>>
       /\ out' = [out EXCEPT ![pedantic] = [t |-> "returned", value |-> retval]]
       /\ UNCHANGED <<input, tokens, pedantic, token, pos, retval>>

_output ==
    \/ /\ Running("_output", "loop1")
       /\ IF ~(_check(Here, "CARET") \/ _check(Here, "PROMPT"))
          THEN Call(Here, [Top EXCEPT !.pc = "append1"],
                    Frame("_out_of_band_record", "start"))
          ELSE IF _check(Here, "CARET")
          THEN Call(Here, [Top EXCEPT !.pc = "result"],
                    Frame("_result_record", "start"))
          ELSE Goto(Here, [Top EXCEPT !.pc = "loop2", !.v1 = PyNone])
    \/ /\ Running("_output", "append1")
       /\ Goto(Here, [Top EXCEPT !.pc = "loop1", !.acc = Append(@, retval)])
    \/ /\ Running("_output", "result")
       /\ Goto(Here, [Top EXCEPT !.pc = "loop2", !.v1 = retval])
    \/ /\ Running("_output", "loop2")
       /\ IF ~pedantic /\ ~_check(Here, "PROMPT")
          THEN Call(Here, [Top EXCEPT !.pc = "append2"],
                    Frame("_out_of_band_record", "start"))
          ELSE Return(_expect(_expect(Here, "PROMPT"), "NL"),
                      PyTuple(<<PyList(Top.acc), Top.v1>>))
    \/ /\ Running("_output", "append2")
       /\ Goto(Here, [Top EXCEPT !.pc = "loop2", !.acc = Append(@, retval)])

\* the table of _out_of_band_record, with the one-line rules it names
\* (_exec_async_output ... _log_stream_output) folded in
oob_table == [
    ASTERISK  |-> [fn |-> "_async_output",  prefix |-> "ASTERISK"],
    PLUS      |-> [fn |-> "_async_output",  prefix |-> "PLUS"],
    EQUALS    |-> [fn |-> "_async_output",  prefix |-> "EQUALS"],
    TILDE     |-> [fn |-> "_stream_output", prefix |-> "TILDE"],
    AT        |-> [fn |-> "_stream_output", prefix |-> "AT"],
    AMPERSAND |-> [fn |-> "_stream_output", prefix |-> "AMPERSAND"]
]

_out_of_band_record ==
    \/ /\ Running("_out_of_band_record", "start")
       /\ LET marker == _lookahead(Here).kind IN
          IF marker \in DOMAIN oob_table
          THEN Call(Here, [Top EXCEPT !.pc = "ret"],
                    [Frame(oob_table[marker].fn, "start")
                        EXCEPT !.arg = oob_table[marker].prefix])
          ELSE Raise(Here, error(Msg("expected out-of-band record marker, got '%s'",
                                     <<marker>>)))
    \/ /\ Running("_out_of_band_record", "ret")
       /\ Return(Here, retval)

\* _stream_output insisting on the newline in lenient mode
stream_newline_expected(s) == IF ~pedantic THEN _expect(s, "NL") ELSE s

\* what _stream_output does after the C string
stream_newline(s) == IF ~pedantic THEN _accept(s, "NL") ELSE s

_stream_output ==
    /\ Running("_stream_output", "start")
    /\ \E s1 \in {_expect(Here, Top.arg)} :
       \E s2 \in {_cstring(s1)} :
       \E s3 \in {stream_newline(s2)} :
          Return(s3, PyTuple(<<s1.got.value, s2.got>>))

_async_output ==
    \/ /\ Running("_async_output", "start")
       /\ \E s1 \in {_token_maybe(Here)} :
          \E s2 \in {_expect(s1, Top.arg)} :
          \E s3 \in {_string(s2)} :
             Call(s3, [Top EXCEPT !.pc = "ret",
                                  !.acc = <<s1.got, s2.got.value, s3.got>>],
                  [Frame("_comma_prefixed_results", "loop") EXCEPT !.arg = "NL"])
    \/ /\ Running("_async_output", "ret")
       /\ Return(Here, PyTuple(Append(Top.acc, retval)))

_result_record ==
    \/ /\ Running("_result_record", "start")
       /\ \E s1 \in {_token_maybe(Here)} :
          \E s2 \in {_expect(s1, "CARET")} :
          \E s3 \in {_string(s2)} :
             IF s3.err = PyNone /\ _check(s3, "COMMA")
             THEN Call(s3, [Top EXCEPT !.pc = "results", !.v1 = s1.got, !.v2 = s3.got],
                       [Frame("_comma_prefixed_results", "loop") EXCEPT !.arg = "NL"])
             ELSE Return(_expect(s3, "NL"), PyTuple(<<s1.got, s3.got, PyNone>>))
    \/ /\ Running("_result_record", "results")
       /\ Return(_expect(Here, "NL"), PyTuple(<<Top.v1, Top.v2, retval>>))

\* results.append(self._result()), and values.append(self._value())
append(list, x) == Append(list, x)

_comma_prefixed_results ==
    \/ /\ Running("_comma_prefixed_results", "loop")
       /\ IF _check(Here, "COMMA")
          THEN Call(_expect(Here, "COMMA"), [Top EXCEPT !.pc = "append"],
                    Frame("_result", "start"))
          ELSE Return(_expect(Here, Top.arg), PyList(Top.acc))
    \/ /\ Running("_comma_prefixed_results", "append")
       /\ Goto(Here, [Top EXCEPT !.pc = "loop", !.acc = append(@, retval)])

_result ==
    \/ /\ Running("_result", "start")
       /\ \E s1 \in {_string(Here)} :
          \E s2 \in {_expect(s1, "EQUALS")} :
             Call(s2, [Top EXCEPT !.pc = "ret", !.v1 = s1.got],
                  Frame("_value", "start"))
    \/ /\ Running("_result", "ret")
       /\ Return(Here, PyDict(Top.v1.v, retval))

\* the table of _value; _cstring has no frame of its own
value_table == [LBRACKET |-> "_list", CSTRING |-> "_cstring", LBRACE |-> "_tuple"]

_value ==
    \/ /\ Running("_value", "start")
       /\ LET kind == _lookahead(Here).kind IN
          IF kind \notin DOMAIN value_table
          THEN Raise(Here, error(Msg("expected list, tuple or C string", <<>>)))
          ELSE IF value_table[kind] = "_cstring"
          THEN Return(_cstring(Here), _cstring(Here).got)
          ELSE Call(Here, [Top EXCEPT !.pc = "ret"], Frame(value_table[kind], "start"))
    \/ /\ Running("_value", "ret")
       /\ Return(Here, retval)

_list ==
    \/ /\ Running("_list", "start")
       /\ \E s1 \in {_expect(Here, "LBRACKET")} :
          \E s2 \in {_accept(s1, "RBRACKET")} :
             IF s1.err # PyNone THEN Raise(s1, s1.err)
             ELSE IF s2.got # PyFalse THEN Return(s2, PyList(<<>>))
             ELSE IF _check(s2, "STRING")
             THEN Call(s2, [Top EXCEPT !.pc = "ret"], Frame("_list_results", "start"))
             ELSE Call(s2, [Top EXCEPT !.pc = "ret"], Frame("_list_values", "start"))
    \/ /\ Running("_list", "ret")
       /\ Return(Here, retval)

_list_values ==
    \/ /\ Running("_list_values", "start")
       /\ Call(Here, [Top EXCEPT !.pc = "append"], Frame("_value", "start"))
    \/ /\ Running("_list_values", "append")
       /\ Goto(Here, [Top EXCEPT !.pc = "loop", !.acc = append(@, retval)])
    \/ /\ Running("_list_values", "loop")
       /\ IF _check(Here, "COMMA")
          THEN Call(_expect(Here, "COMMA"), [Top EXCEPT !.pc = "append"],
                    Frame("_value", "start"))
          ELSE Return(_expect(Here, "RBRACKET"), PyList(Top.acc))

\* the results merged as into one dict: a later entry of the first name is lost
first_and_rest_merged(first, rest) ==
    PyList(<<first>> \o SelectSeq(rest.v, LAMBDA x : x.k # first.k))

\* [self._result()] + self._comma_prefixed_results(closer)
first_and_rest(first, rest) == PyList(<<first>> \o rest.v)

_list_results ==
    \/ /\ Running("_list_results", "start")
       /\ Call(Here, [Top EXCEPT !.pc = "first"], Frame("_result", "start"))
    \/ /\ Running("_list_results", "first")
       /\ Call(Here, [Top EXCEPT !.pc = "rest", !.v1 = retval],
               [Frame("_comma_prefixed_results", "loop") EXCEPT !.arg = "RBRACKET"])
    \/ /\ Running("_list_results", "rest")
       /\ Return(Here, first_and_rest(Top.v1, retval))

_tuple ==
    \/ /\ Running("_tuple", "start")
       /\ \E s1 \in {_expect(Here, "LBRACE")} :
          \E s2 \in {_accept(s1, "RBRACE")} :
             IF s1.err # PyNone THEN Raise(s1, s1.err)
             ELSE IF s2.got # PyFalse THEN Return(s2, PyList(<<>>))
             ELSE Call(s2, [Top EXCEPT !.pc = "first"], Frame("_result", "start"))
    \/ /\ Running("_tuple", "first")
       /\ Call(Here, [Top EXCEPT !.pc = "rest", !.v1 = retval],
               [Frame("_comma_prefixed_results", "loop") EXCEPT !.arg = "RBRACE"])
    \/ /\ Running("_tuple", "rest")
       /\ Return(Here, first_and_rest(Top.v1, retval))

Rules ==
    \/ parse
    \/ _output
    \/ _result_record
    \/ _out_of_band_record
    \/ _stream_output
    \/ _async_output
    \/ _result
    \/ _value
    \/ _list
    \/ _list_values
    \/ _list_results
    \/ _tuple
    \/ _comma_prefixed_results

Next == scan(MaxLines) \/ Rules

Spec == Init /\ [][Next]_vars

LiveNext == scan(MaxLiveLines) \/ Rules

\* a running program takes its next step
LiveSpec == Init /\ [][LiveNext]_vars /\ WF_vars(LiveNext)
----------------------------------------------------------------------------
\* What each call did, and what the lines of a text stand for

Returned(p) == out[p].t = "returned"
Raised(p) == out[p].t = "raised"
GrammarError(p) == Raised(p) /\ out[p].exc.t = "SyntaxError"
OobOf(p) == out[p].value.v[1].v
ResultOf(p) == out[p].value.v[2]

\* both calls are over
Finished == stack = <<>> /\ out[TRUE] # Pending

\* the call with the current flag has just returned a document
JustReturned == stack = <<>> /\ Returned(pedantic)

\* the tokens the running or last call has moved past
Consumed == IF token = NoneTok THEN pos ELSE pos - 1

\* the record each well-formed line denotes in the MI grammar
Record == [
    a   |-> PyTuple(<<PyNone, PyStr("*"), PyStr("stopped"), PyList(<<>>)>>),
    a2  |-> PyTuple(<<PyInt(2), PyStr("*"), PyStr("stopped"), PyList(<<>>)>>),
    n   |-> PyTuple(<<PyNone, PyStr("="), PyStr("x"), PyList(<<
                PyDict("a", PyList(<<PyDict("b", PyStr("1")), PyDict("b", PyStr("2"))>>)),
                PyDict("c", PyList(<<>>))>>)>>),
    p   |-> PyTuple(<<PyNone, PyStr("+"), PyStr("s"), PyList(<<
                PyDict("l", PyList(<<PyStr("x"), PyList(<<>>)>>)),
                PyDict("m", PyList(<<PyDict("k", PyStr("v")), PyDict("k", PyStr("w"))>>))>>)>>),
    c   |-> PyTuple(<<PyStr("~"), PyStr("Hello\n")>>),
    cn  |-> PyTuple(<<PyStr("~"), PyStr("a")>>),
    t   |-> PyTuple(<<PyStr("@"), PyStr("b")>>),
    l   |-> PyTuple(<<PyStr("&"), PyStr("c")>>),
    r   |-> PyTuple(<<PyNone, PyStr("done"), PyNone>>),
    r1  |-> PyTuple(<<PyInt(1), PyStr("done"), PyNone>>),
    rb  |-> PyTuple(<<PyNone, PyStr("done"), PyList(<<
                PyDict("bkpt", PyList(<<PyDict("number", PyStr("1"))>>))>>)>>)
]

Records(ls) == [i \in 1..Len(ls) |-> Record[ls[i]]]

AsyncLines == {"a", "n", "p"}            \* async records without id, newline-terminated
StrictOobLines == AsyncLines \cup {"c", "l"}   \* plus streams with their newline
BareStreamLines == {"cn", "t"}           \* stream records without the newline
ResultLines == {"r", "r1", "rb"}

AllIn(ls, S) == \A i \in 1..Len(ls) : ls[i] \in S
Front(ls) == SubSeq(ls, 1, Len(ls) - 1)
Last(ls) == ls[Len(ls)]
RemoveAt(ls, k) == SubSeq(ls, 1, k - 1) \o SubSeq(ls, k + 1, Len(ls))

----------------------------------------------------------------------------
\* texts of id-free async lines, one result line and the prompt line
C1_ResultRecordDoc ==
    /\ input.prompt
    /\ input.lines # <<>>
    /\ Last(input.lines) \in ResultLines
    /\ AllIn(Front(input.lines), AsyncLines)

\* C1: a text whose result record <n>^<class>[,results] newline is followed by
\* the prompt line parses (default mode), and the returned result record is
\* the one written: its first field is the integer n, or None when no id is
\* written.  Stated for texts of id-free async lines, one result line, prompt.
C1_ResultRecordId ==
    (C1_ResultRecordDoc /\ out[FALSE] # Pending) =>
        /\ Returned(FALSE)
        /\ ResultOf(FALSE) = Record[Last(input.lines)]

\* texts with a bare stream line among id-free out-of-band lines, then at
\* most one plain result line, then the prompt line
C2_BareStreamDoc ==
    /\ input.prompt
    /\ \E i \in 1..Len(input.lines) : input.lines[i] \in BareStreamLines
    /\ \/ AllIn(input.lines, StrictOobLines \cup BareStreamLines)
       \/ /\ Last(input.lines) = "r"
          /\ AllIn(Front(input.lines), StrictOobLines \cup BareStreamLines)

\* C2: a text with a stream record that lacks its newline and is otherwise
\* well formed (id-free out-of-band lines, then at most one plain result line,
\* then the prompt line) is accepted by the lenient call and rejected with a
\* grammar error by the pedantic call.
C2_ModesDifferOnBareStream ==
    (C2_BareStreamDoc /\ Finished) => (Returned(FALSE) /\ GrammarError(TRUE))

\* line k is the result record, well-formed out-of-band lines follow it
C3_ResultAt(k) ==
    /\ input.lines[k] \in ResultLines
    /\ k < Len(input.lines)
    /\ AllIn(RemoveAt(input.lines, k), StrictOobLines \cup {"a2"})

\* C3: when well-formed out-of-band records stand between the result record
\* and the prompt line, the lenient call returns them, in order, after the
\* records that preceded the result record, and the pedantic call fails with
\* a grammar error.
C3_OobAfterResult ==
    \A k \in 1..Len(input.lines) :
        (input.prompt /\ C3_ResultAt(k) /\ Finished) =>
            /\ Returned(FALSE)
            /\ OobOf(FALSE) = Records(RemoveAt(input.lines, k))
            /\ GrammarError(TRUE)

\* well-formed texts without the prompt line, the empty text among them
C4_NoPromptDoc ==
    /\ ~input.prompt
    /\ \/ AllIn(input.lines, StrictOobLines)
       \/ /\ input.lines # <<>>
          /\ Last(input.lines) = "r"
          /\ AllIn(Front(input.lines), StrictOobLines)

\* C4: a well-formed text without the final prompt line (the empty text, a
\* text ending after an out-of-band record or after the result record) makes
\* either call fail with the grammar error "expected PROMPT, got <kind>".
C4_MissingPromptNamed ==
    \A p \in BOOLEAN :
        (C4_NoPromptDoc /\ out[p] # Pending) =>
            /\ GrammarError(p)
            /\ out[p].exc.what.fmt = "expected %s, got %s"
            /\ out[p].exc.what.args[1] = "PROMPT"

\* C5: whenever a call returns a document, the prompt and newline it consumed
\* last are the last two tokens of the text: nothing is left unread.
C5_NothingAfterPrompt ==
    JustReturned => (token = NoneTok /\ Consumed = Len(tokens))

\* texts of the strict grammar without ids
C6_StrictDoc ==
    /\ input.prompt
    /\ \/ AllIn(input.lines, StrictOobLines)
       \/ /\ input.lines # <<>>
          /\ Last(input.lines) \in {"r", "rb"}
          /\ AllIn(Front(input.lines), StrictOobLines)

C6_StrictOobLines ==
    SelectSeq(input.lines, LAMBDA x : x \in StrictOobLines)

\* C6: a text of the strict grammar without ids (out-of-band lines each with
\* its newline, at most one result line, the prompt line) is accepted by both
\* calls, and the out-of-band list holds the text's records in text order.
C6_StrictDocAccepted ==
    (C6_StrictDoc /\ Finished) =>
        \A p \in BOOLEAN :
            /\ Returned(p)
            /\ OobOf(p) = Records(C6_StrictOobLines)

\* texts with the async line that carries an id, among id-free async lines,
\* then at most one plain result line, then the prompt line
C8_AsyncIdDoc ==
    /\ input.prompt
    /\ input.lines # <<>>
    /\ \E i \in 1..Len(input.lines) : input.lines[i] = "a2"
    /\ \/ AllIn(input.lines, AsyncLines \cup {"a2"})
       \/ /\ Last(input.lines) = "r"
          /\ AllIn(Front(input.lines), AsyncLines \cup {"a2"})

\* C8: an async record written with a numeric id before the result record or
\* the prompt parses (default mode) to (n, sigil, class, results).
C8_AsyncRecordId ==
    (C8_AsyncIdDoc /\ out[FALSE] # Pending) =>
        /\ Returned(FALSE)
        /\ \A i \in 1..Len(input.lines) :
              input.lines[i] = "a2" => OobOf(FALSE)[i] = Record["a2"]
\* the names of the named results of a value, in the order they are held
RECURSIVE NamesOf(_), NamesOfAll(_), EmptiesOf(_), EmptiesOfAll(_)
NamesOf(v) ==
    IF v.t = "dict" THEN <<v.k>> \o NamesOf(v.v)
    ELSE IF v.t \in {"list", "tuple"} THEN NamesOfAll(v.v)
    ELSE <<>>

NamesOfAll(vs) ==
    IF vs = <<>> THEN <<>> ELSE NamesOf(Head(vs)) \o NamesOfAll(Tail(vs))

\* the empty sequences among the values of v (a record's own result list,
\* which no bracket encloses, is not a value)
EmptiesOf(v) ==
    IF v.t = "dict"
    THEN IF v.v = PyList(<<>>) THEN 1 ELSE EmptiesOf(v.v)
    ELSE IF v.t \in {"list", "tuple"} THEN EmptiesOfAll(v.v)
    ELSE 0

EmptiesOfAll(vs) ==
    IF vs = <<>> THEN 0
    ELSE (IF Head(vs) = PyList(<<>>) THEN 1 ELSE EmptiesOf(Head(vs)))
         + EmptiesOfAll(Tail(vs))

RecordEmpties(rec) ==
    IF rec.t # "tuple" THEN 0
    ELSE LET fieldEmpties(i) == IF rec.v[i].t = "list" THEN EmptiesOfAll(rec.v[i].v) ELSE 0
             RECURSIVE upTo(_)
             upTo(i) == IF i = 0 THEN 0 ELSE fieldEmpties(i) + upTo(i - 1)
         IN  upTo(Len(rec.v))

RECURSIVE DocEmpties(_)
DocEmpties(recs) ==
    IF recs = <<>> THEN 0 ELSE RecordEmpties(Head(recs)) + DocEmpties(Tail(recs))

NameAt(i) == tokens[i].kind = "STRING" /\ tokens[i + 1].kind = "EQUALS"

NamesWritten ==
    LET at == SelectSeq([i \in 1..(Consumed - 1) |-> i], LAMBDA i : NameAt(i))
    IN  [j \in 1..Len(at) |-> tokens[at[j]].value.v]

EmptiesWritten ==
    Cardinality({i \in 1..(Consumed - 1) :
        \/ tokens[i].kind = "LBRACKET" /\ tokens[i + 1].kind = "RBRACKET"
        \/ tokens[i].kind = "LBRACE" /\ tokens[i + 1].kind = "RBRACE"})

\* the records of the returned document in text order, the result record
\* standing after the first k out-of-band records
InTextOrder(k) ==
    SubSeq(OobOf(pedantic), 1, k) \o <<ResultOf(pedantic)>>
        \o SubSeq(OobOf(pedantic), k + 1, Len(OobOf(pedantic)))

LoopFrames == {"_output", "_comma_prefixed_results", "_list_values"}

RECURSIVE Iterations(_)
Iterations(st) ==
    IF st = <<>> THEN 0
    ELSE (IF Head(st).fn \in LoopFrames THEN Len(Head(st).acc) ELSE 0)
         + Iterations(Tail(st))

C9_LoopProgress == Iterations(stack) <= Consumed

C9_Lookahead ==
    stack # <<>> =>
        \/ token = NoneTok /\ pos = Len(tokens)
        \/ pos \in 1..Len(tokens) /\ token = tokens[pos]

\* C9: each call ends, returning or raising; the loops of _output,
\* _comma_prefixed_results and _list_values have never completed more
\* iterations than tokens were consumed, and the lookahead is the token at
\* the iterator's position or, past the last token, the sentinel.
C9_Terminates == [](C9_LoopProgress /\ C9_Lookahead) /\ <>Finished

\* both calls are over, one returning and one raising, on a text that took
\* the lenient call through a loop of _output, the comma loops and the value
\* loop
C9_Witness ==
    /\ Finished
    /\ Returned(FALSE)
    /\ Raised(TRUE)
    /\ ResultOf(FALSE) # PyNone
    /\ \E i \in 1..Len(OobOf(FALSE)) : OobOf(FALSE)[i] = Record["p"]

\* C10: whenever the pedantic call returns a document, the lenient call
\* returns the same document.
C10_LenientExtendsPedantic ==
    (Finished /\ Returned(TRUE)) =>
        (Returned(FALSE) /\ out[FALSE].value = out[TRUE].value)

\* the pedantic call returned a document with a stream record and a result
C10_Witness ==
    /\ Finished
    /\ Returned(TRUE)
    /\ ResultOf(TRUE) # PyNone
    /\ \E i \in 1..Len(OobOf(TRUE)) : OobOf(TRUE)[i] = Record["cn"]
====
